---- MODULE Spec2Model ----
(***************************************************************************)
(* Market-intelligence workflow: the LangGraph pipeline of                 *)
(* src/workflows/intelligence.py (research -> analysis -> writing ->       *)
(* human_review), the cost ledger of src/utils/cost_tracker.py and the     *)
(* per-thread checkpoints the compiled graph keeps.                        *)
(*                                                                         *)
(* Money is counted in units of 1e-8 USD, the unit in which every price of *)
(* the PRICING table (USD per token) is a whole number, so that a cost is  *)
(* input_tokens * price + output_tokens * price exactly.                   *)
(***************************************************************************)
EXTENDS Integers, Sequences, FiniteSets, TLC

(***************************************************************************)
(* Bounds of the model.                                                    *)
(***************************************************************************)
\* LLM calls that record usage during one execution of one stage
MaxStageCalls == 1
\* usage records one process-scoped ledger holds
MaxCalls == 3
\* calls of run() over the life of the model
MaxRuns == 2
\* executions of the research node within one run
MaxPasses == 4

(***************************************************************************)
(* Values.                                                                 *)
(***************************************************************************)
None == "None"
Empty == "empty"
Filled == "filled"
END == "__end__"
Idle == "idle"
Nodes == {"research", "analysis", "writing", "human_review"}

ThreadIds == {"default", "t1"}
Companies == {"Test Co"}
Industries == {None}
\* model names an agent can be configured with (Settings.default_model)
AgentModels == {"openai/gpt-5-mini"}
\* (prompt_tokens, completion_tokens) pairs an LLM response reports
TokenPairs == {<<100, 50>>, <<10000, 5000>>}
\* max_budget values: below, equal to and above the cost of one
\* (10000, 5000) call on openai/gpt-5-mini, and the constructor's default
Budgets == {100000, 1250000, 200000000}

(***************************************************************************)
(* CostTracker                                                             *)
(***************************************************************************)
PricedModels ==
  {"x-ai/grok-4.1-fast:free", "meta-llama/llama-3.3-70b-instruct:free",
   "ollama", "openai/gpt-5-nano", "openai/gpt-5-mini",
   "google/gemini-2.5-flash-lite", "google/gemini-3-pro-preview",
   "anthropic/claude-sonnet-4.5"}

PRICING ==
  [m \in PricedModels |->
     CASE m = "openai/gpt-5-nano" -> [input |-> 5, output |-> 40]
       [] m = "openai/gpt-5-mini" -> [input |-> 25, output |-> 200]
       [] m = "google/gemini-2.5-flash-lite" -> [input |-> 10, output |-> 40]
       [] m = "google/gemini-3-pro-preview" -> [input |-> 200, output |-> 1200]
       [] m = "anthropic/claude-sonnet-4.5" -> [input |-> 300, output |-> 1500]
       [] OTHER -> [input |-> 0, output |-> 0]]

\* calculate_cost against the price table `prices` (self.PRICING at the
\* time of the call)
calculate_cost_at(prices, model, input_tokens, output_tokens) ==
  LET entry == IF model \in DOMAIN prices THEN prices[model]
               ELSE prices["openai/gpt-5-mini"]
  IN  (input_tokens * entry.input) + (output_tokens * entry.output)

\* calculate_cost with the cheapest OpenAI model as the fallback
calculate_cost_nano_fallback(model, input_tokens, output_tokens) ==
  LET pricing_ == IF model \in DOMAIN PRICING THEN PRICING[model]
                  ELSE PRICING["openai/gpt-5-nano"]
  IN  (input_tokens * pricing_.input) + (output_tokens * pricing_.output)

\* calculate_cost with the price table as shipped
calculate_cost(model, input_tokens, output_tokens) ==
  LET pricing_ == IF model \in DOMAIN PRICING THEN PRICING[model]
                  ELSE PRICING["openai/gpt-5-mini"]
  IN  (input_tokens * pricing_.input) + (output_tokens * pricing_.output)

\* a fresh CostTracker()
NewTracker == [total_cost |-> 0, usage_history |-> <<>>]

TokenUsage(input_tokens, output_tokens, model) ==
  [input_tokens |-> input_tokens, output_tokens |-> output_tokens,
   model |-> model]

\* track_usage that keeps only the latest record of each call
track_usage_at_latest_only(prices, t, model, input_tokens, output_tokens) ==
  [total_cost |-> t.total_cost
                    + calculate_cost_at(prices, model, input_tokens,
                                        output_tokens),
   usage_history |-> <<TokenUsage(input_tokens, output_tokens, model)>>]

\* the tracker after track_usage(model, input_tokens, output_tokens) made
\* while the price table is `prices`
track_usage_at(prices, t, model, input_tokens, output_tokens) ==
  [total_cost |-> t.total_cost
                    + calculate_cost_at(prices, model, input_tokens,
                                        output_tokens),
   usage_history |-> Append(t.usage_history,
                       TokenUsage(input_tokens, output_tokens, model))]

\* the tracker after track_usage(model, input_tokens, output_tokens)
track_usage(t, model, input_tokens, output_tokens) ==
  [total_cost |-> t.total_cost
                    + calculate_cost(model, input_tokens, output_tokens),
   usage_history |-> Append(t.usage_history,
                       TokenUsage(input_tokens, output_tokens, model))]

\* check_budget with the comparison made inclusive
check_budget_inclusive(t, budget) == t.total_cost >= budget

\* TRUE when check_budget(max_budget) raises BudgetExceededError
check_budget(t, budget) == t.total_cost > budget

RECURSIVE SumOver(_, _)
SumOver(seq, field) ==
  IF seq = <<>> THEN 0 ELSE seq[1][field] + SumOver(Tail(seq), field)

\* round(x, 4): the nearest multiple of 1e-4 USD (10000 units), ties to even
round4(x) ==
  LET q == x \div 10000
      r == x % 10000
  IN  IF r > 5000 \/ (r = 5000 /\ q % 2 = 1) THEN (q + 1) * 10000
      ELSE q * 10000

RECURSIVE model_costs(_, _, _)
\* the "Group by model" loop of get_summary over the records of seq,
\* continuing from the dictionary acc
model_costs(prices, seq, acc) ==
  IF seq = <<>> THEN acc
  ELSE LET usage == seq[1]
           acc1 == IF usage.model \in DOMAIN acc THEN acc
                   ELSE acc @@ (usage.model :>
                                  [input_tokens |-> 0, output_tokens |-> 0,
                                   cost |-> 0])
           old == acc1[usage.model]
           acc2 == [acc1 EXCEPT ![usage.model] =
                      [input_tokens |-> old.input_tokens + usage.input_tokens,
                       output_tokens |->
                         old.output_tokens + usage.output_tokens,
                       cost |-> old.cost
                                  + calculate_cost_at(prices, usage.model,
                                      usage.input_tokens,
                                      usage.output_tokens)]]
       IN  model_costs(prices, Tail(seq), acc2)

\* get_summary() called while the price table is `prices`
get_summary_at(prices, t) ==
  LET total_input == SumOver(t.usage_history, "input_tokens")
      total_output == SumOver(t.usage_history, "output_tokens")
  IN  [total_cost |-> round4(t.total_cost),
       total_input_tokens |-> total_input,
       total_output_tokens |-> total_output,
       total_tokens |-> total_input + total_output,
       calls |-> Len(t.usage_history),
       by_model |-> model_costs(prices, t.usage_history, <<>>)]

\* the keys of get_summary() the workflow reads
get_summary(t) ==
  LET total_input == SumOver(t.usage_history, "input_tokens")
      total_output == SumOver(t.usage_history, "output_tokens")
  IN  [total_cost |-> round4(t.total_cost),
       total_input_tokens |-> total_input,
       total_output_tokens |-> total_output,
       total_tokens |-> total_input + total_output,
       calls |-> Len(t.usage_history)]


(***************************************************************************)
(* IntelligenceState and the graph's channel semantics                     *)
(***************************************************************************)
\* the initial_state dictionary that run() builds
InitialState(company_name, industry) ==
  [company_name |-> company_name,
   industry |-> industry,
   research_data |-> Empty,
   competitors |-> Empty,
   market_trends |-> Empty,
   raw_sources |-> Empty,
   swot |-> Empty,
   competitive_matrix |-> Empty,
   positioning |-> Empty,
   strategic_recommendations |-> Empty,
   executive_summary |-> Empty,
   full_report |-> Empty,
   report_metadata |-> Empty,
   current_agent |-> "research",
   iteration |-> 0,
   total_cost |-> 0,
   total_tokens |-> 0,
   errors |-> <<>>,
   human_feedback |-> None,
   approved |-> FALSE,
   revision_count |-> 0]

\* every key, errors included, treated as a last-value channel
Merge_overwrite(s, d) ==
  [f \in DOMAIN s |-> IF f \in DOMAIN d THEN d[f] ELSE s[f]]

\* Applying a node's partial update (or run()'s input) to the channels:
\* errors is Annotated[list, operator.add] and is concatenated; every other
\* key is a last-value channel and is overwritten when the update names it.
Merge(s, d) ==
  [f \in DOMAIN s |->
     IF f = "errors"
     THEN IF "errors" \in DOMAIN d THEN s.errors \o d.errors ELSE s.errors
     ELSE IF f \in DOMAIN d THEN d[f] ELSE s[f]]

NoCheckpoint == [next |-> "none"]

\* the channel values a call of ainvoke(initial_state, config) starts from:
\* the thread's checkpointed values (if any) with the input applied to them
MapInput(cp, input) ==
  IF cp = NoCheckpoint THEN input ELSE Merge(cp.values, input)

(***************************************************************************)
(* Collaborator responses                                                  *)
(***************************************************************************)
\* the usage-reporting LLM calls one agent.run() makes before it returns
\* or raises
CallSeqs ==
  UNION {[1..n -> TokenPairs] : n \in 0..MaxStageCalls}

\* what research_agent.run does: the calls it made, whether it returned
\* (ok) or raised, and whether the returned results are empty
ResearchResponses ==
  {[calls |-> c, ok |-> FALSE, out |-> Empty] : c \in CallSeqs}
  \cup {[calls |-> c, ok |-> TRUE, out |-> o] :
          c \in CallSeqs, o \in {Empty, Filled}}

\* what analysis_agent.run and writer_agent.run do
AgentResponses ==
  {[calls |-> c, ok |-> b, out |-> Filled] : c \in CallSeqs, b \in BOOLEAN}

\* the placeholder verdict with approved left False
AutoApprove_unapproved == [approved |-> FALSE, human_feedback |-> None]

\* the verdict of the shipped _human_review_node
AutoApprove == [approved |-> TRUE, human_feedback |-> None]

\* the verdicts a reviewer can give (approved: bool, human_feedback:
\* str | None)
ReviewReplies ==
  {[approved |-> a, human_feedback |-> f] :
     a \in BOOLEAN, f \in {None, "Please add more details"}}

RECURSIVE TrackAll(_, _, _)
\* BaseAgent._invoke_llm on each call of the sequence, in order
TrackAll(t, model, calls) ==
  IF calls = <<>> THEN t
  ELSE TrackAll(track_usage(t, model, calls[1][1], calls[1][2]),
                model, Tail(calls))

RECURSIVE CostOf(_, _)
\* the sum of the cost deltas track_usage returns for these calls
CostOf(model, calls) ==
  IF calls = <<>> THEN 0
  ELSE calculate_cost(model, calls[1][1], calls[1][2])
         + CostOf(model, Tail(calls))

(***************************************************************************)
(* Nodes: each yields the partial update the node returns, the ledger      *)
(* after the node, and what happened (for the execution trace)             *)
(***************************************************************************)
\* the research node clearing the reviewer's feedback it has acted on
_research_node_clears_feedback(s, t, model, resp) ==
  [tracker |-> TrackAll(t, model, resp.calls),
   invoked |-> TRUE,
   calls |-> resp.calls,
   result |-> IF resp.ok THEN "ok" ELSE "error",
   delta |->
     IF resp.ok
     THEN [current_agent |-> "research",
           research_data |-> resp.out,
           competitors |-> resp.out,
           market_trends |-> resp.out,
           raw_sources |-> resp.out,
           iteration |-> s.iteration + 1,
           human_feedback |-> None]
     ELSE [errors |-> <<"Research failed">>,
           current_agent |-> "research"]]

_research_node(s, t, model, resp) ==
  [tracker |-> TrackAll(t, model, resp.calls),
   invoked |-> TRUE,
   calls |-> resp.calls,
   result |-> IF resp.ok THEN "ok" ELSE "error",
   delta |->
     IF resp.ok
     THEN [current_agent |-> "research",
           research_data |-> resp.out,
           competitors |-> resp.out,
           market_trends |-> resp.out,
           raw_sources |-> resp.out,
           iteration |-> s.iteration + 1]
     ELSE [errors |-> <<"Research failed">>,
           current_agent |-> "research"]]

\* the analysis node with a failure handler that blanks its outputs
_analysis_node_clearing(s, t, budget, model, resp) ==
  IF check_budget(t, budget)
  THEN [tracker |-> t,
        invoked |-> FALSE,
        calls |-> <<>>,
        result |-> "budget",
        delta |-> [errors |-> <<"Budget exceeded">>,
                   current_agent |-> "analysis"]]
  ELSE [tracker |-> TrackAll(t, model, resp.calls),
        invoked |-> TRUE,
        calls |-> resp.calls,
        result |-> IF resp.ok THEN "ok" ELSE "error",
        delta |->
          IF resp.ok
          THEN [current_agent |-> "analysis",
                swot |-> resp.out,
                competitive_matrix |-> resp.out,
                positioning |-> resp.out,
                strategic_recommendations |-> resp.out]
          ELSE [errors |-> <<"Analysis failed">>,
                current_agent |-> "analysis",
                swot |-> Empty,
                competitive_matrix |-> Empty,
                positioning |-> Empty,
                strategic_recommendations |-> Empty]]

_analysis_node(s, t, budget, model, resp) ==
  IF check_budget(t, budget)
  THEN [tracker |-> t,
        invoked |-> FALSE,
        calls |-> <<>>,
        result |-> "budget",
        delta |-> [errors |-> <<"Budget exceeded">>,
                   current_agent |-> "analysis"]]
  ELSE [tracker |-> TrackAll(t, model, resp.calls),
        invoked |-> TRUE,
        calls |-> resp.calls,
        result |-> IF resp.ok THEN "ok" ELSE "error",
        delta |->
          IF resp.ok
          THEN [current_agent |-> "analysis",
                swot |-> resp.out,
                competitive_matrix |-> resp.out,
                positioning |-> resp.out,
                strategic_recommendations |-> resp.out]
          ELSE [errors |-> <<"Analysis failed">>,
                current_agent |-> "analysis"]]

\* the writing node reporting the cost of its own calls only
_writing_node_stage_cost(s, t, model, resp) ==
  LET t2 == TrackAll(t, model, resp.calls)
      cost_summary == get_summary(TrackAll(NewTracker, model, resp.calls))
  IN  [tracker |-> t2,
       invoked |-> TRUE,
       calls |-> resp.calls,
       result |-> IF resp.ok THEN "ok" ELSE "error",
       delta |->
         IF resp.ok
         THEN [current_agent |-> "writing",
               executive_summary |-> resp.out,
               full_report |-> resp.out,
               report_metadata |-> resp.out,
               total_cost |-> cost_summary.total_cost,
               total_tokens |-> cost_summary.total_tokens]
         ELSE [errors |-> <<"Writing failed">>,
               current_agent |-> "writing"]]

\* the writing node with a failure handler that records nothing
_writing_node_silent(s, t, model, resp) ==
  LET t2 == TrackAll(t, model, resp.calls)
      cost_summary == get_summary(t2)
  IN  [tracker |-> t2,
       invoked |-> TRUE,
       calls |-> resp.calls,
       result |-> IF resp.ok THEN "ok" ELSE "error",
       delta |->
         IF resp.ok
         THEN [current_agent |-> "writing",
               executive_summary |-> resp.out,
               full_report |-> resp.out,
               report_metadata |-> resp.out,
               total_cost |-> cost_summary.total_cost,
               total_tokens |-> cost_summary.total_tokens]
         ELSE [current_agent |-> "writing"]]

_writing_node(s, t, model, resp) ==
  LET t2 == TrackAll(t, model, resp.calls)
      cost_summary == get_summary(t2)
  IN  [tracker |-> t2,
       invoked |-> TRUE,
       calls |-> resp.calls,
       result |-> IF resp.ok THEN "ok" ELSE "error",
       delta |->
         IF resp.ok
         THEN [current_agent |-> "writing",
               executive_summary |-> resp.out,
               full_report |-> resp.out,
               report_metadata |-> resp.out,
               total_cost |-> cost_summary.total_cost,
               total_tokens |-> cost_summary.total_tokens]
         ELSE [errors |-> <<"Writing failed">>,
               current_agent |-> "writing"]]

\* the review node with current_agent left out of its update
_human_review_node_anonymous(s, t, reply) ==
  [tracker |-> t,
   invoked |-> FALSE,
   calls |-> <<>>,
   result |-> "ok",
   delta |-> [approved |-> reply.approved,
              human_feedback |-> reply.human_feedback]]

_human_review_node(s, t, reply) ==
  [tracker |-> t,
   invoked |-> FALSE,
   calls |-> <<>>,
   result |-> "ok",
   delta |-> [current_agent |-> "human_review",
              approved |-> reply.approved,
              human_feedback |-> reply.human_feedback]]

(***************************************************************************)
(* Routing                                                                 *)
(***************************************************************************)
\* the research edge made unconditional
_should_continue_unconditional(s) == "analysis"

_should_continue_to_analysis(s) ==
  IF s.errors # <<>> THEN "end"
  ELSE IF s.research_data = Empty THEN "end"
  ELSE "analysis"

\* the approval test made before the revision cap test
_check_approval_approval_first(s) ==
  IF s.approved THEN "approved"
  ELSE IF s.revision_count >= 2 THEN "max_revisions"
  ELSE IF s.human_feedback \notin {None, ""} THEN "revise"
  ELSE "approved"

_check_approval(s) ==
  IF s.revision_count >= 2 THEN "max_revisions"
  ELSE IF s.approved THEN "approved"
  ELSE IF s.human_feedback \notin {None, ""} THEN "revise"
  ELSE "approved"

\* the edges with writing wired straight to END
NextNode_skip_review(node, s) ==
  CASE node = "research" ->
         (IF _should_continue_to_analysis(s) = "analysis"
          THEN "analysis" ELSE END)
    [] node = "analysis" -> "writing"
    [] node = "writing" -> END
    [] node = "human_review" ->
         (IF _check_approval(s) = "revise" THEN "research" ELSE END)

\* the edges _build_graph adds: the node dispatched after `node` has
\* updated the state to s
NextNode(node, s) ==
  CASE node = "research" ->
         (IF _should_continue_to_analysis(s) = "analysis"
          THEN "analysis" ELSE END)
    [] node = "analysis" -> "writing"
    [] node = "writing" -> "human_review"
    [] node = "human_review" ->
         (IF _check_approval(s) = "revise" THEN "research" ELSE END)

\* the node the compiled graph dispatches first
EntryPoint == "research"


(***************************************************************************)
(* State                                                                   *)
(***************************************************************************)
VARIABLES
  state,        \* channel values (IntelligenceState) of the thread being run
  next,         \* node the graph dispatches next; END when the run has
                \* returned; Idle when no run is in progress
  thread,       \* config["configurable"]["thread_id"] of the current run
  tracker,      \* self.cost_tracker, shared by the three agents
  max_budget,   \* self.max_budget
  model_name,   \* BaseAgent.model_name of the agents
  checkpoints,  \* the checkpointer: thread_id -> last saved checkpoint
  runs,         \* number of run() calls so far
  prior,        \* the checkpoint the current run found for its thread
  trace,        \* node executions of the current run, in order: the
                \* node, how it ended ("ok", "error", "budget"), whether its
                \* agent was invoked, whether the ledger total exceeded
                \* the budget when it was dispatched, the total its budget
                \* check compared, and the successor its edge chose
  run_deltas,   \* sum of the cost deltas track_usage returned in this run
  script,       \* replayed collaborator responses (replay specification)
  ret,          \* the last direct call of a method of the workflow or of
                \* its cost tracker, with its argument and returned value
  pricing,      \* CostTracker.PRICING, the class-level price table
  log,          \* the track_usage calls made directly on the ledger, in
                \* order, each with the cost it returned
  analysis_store \* the API's in-memory store: run_id -> analysis record

vars == <<state, next, thread, tracker, max_budget, model_name, checkpoints,
          runs, prior, trace, run_deltas, script, ret, pricing, log,
          analysis_store>>

NoState == [current_agent |-> "none"]
\* trace entry of a node that makes no budget check
NoCheck == -1
NoScript == [research |-> "none"]
NoCall == [fn |-> "none"]
\* run ids uuid4() hands out; each is the thread_id of its workflow run
RunIds == {"t1"}
\* run_id not in analysis_store
NoRecord == [status |-> "none"]

\* MarketIntelligenceWorkflow.__init__ in a fresh process with an empty
\* checkpoint database
InitWorkflow ==
  /\ state = NoState
  /\ next = Idle
  /\ thread = None
  /\ tracker = NewTracker
  /\ max_budget \in Budgets
  /\ model_name \in AgentModels
  /\ checkpoints = [t \in ThreadIds |-> NoCheckpoint]
  /\ runs = 0
  /\ prior = NoCheckpoint
  /\ trace = <<>>
  /\ run_deltas = 0
  /\ ret = NoCall
  /\ pricing = PRICING
  /\ log = <<>>
  /\ analysis_store = [r \in RunIds |-> NoRecord]

Init == InitWorkflow /\ script = NoScript

\* run(company_name, industry, thread_id): ainvoke(initial_state, config)
\* applies the input to the thread's channels, saves the input checkpoint
\* and schedules the entry point
Run(company_name, industry, tid) ==
  /\ next \in {Idle, END}
  /\ runs < MaxRuns
  /\ LET s0 == MapInput(checkpoints[tid],
                        InitialState(company_name, industry))
     IN  /\ state' = s0
         /\ checkpoints' =
              [checkpoints EXCEPT ![tid] = [values |-> s0,
                                            next |-> EntryPoint]]
  /\ next' = EntryPoint
  /\ thread' = tid
  /\ prior' = checkpoints[tid]
  /\ runs' = runs + 1
  /\ trace' = <<>>
  /\ run_deltas' = 0
  /\ UNCHANGED <<tracker, max_budget, model_name, script, ret,
                 pricing, log,
                 analysis_store>>

\* a superstep of a graph compiled without a checkpointer: nothing is saved
Superstep_unsaved(node, r) ==
  LET s2 == Merge(state, r.delta)
      n2 == NextNode(node, s2)
  IN  /\ state' = s2
      /\ next' = n2
      /\ tracker' = r.tracker
      /\ trace' = Append(trace,
                    [node |-> node, result |-> r.result,
                     invoked |-> r.invoked,
                     over |-> tracker.total_cost > max_budget,
                     checked |-> IF node = "analysis"
                                 THEN tracker.total_cost ELSE NoCheck,
                     to |-> n2])
      /\ run_deltas' = run_deltas + CostOf(model_name, r.calls)
      /\ UNCHANGED <<thread, max_budget, model_name, runs, prior, script, ret,
                     checkpoints,
                 pricing, log,
                 analysis_store>>

\* one superstep of the graph: the node's update is applied to the
\* channels, the successor is chosen by the node's edge and the checkpoint
\* of the thread is saved
Superstep(node, r) ==
  LET s2 == Merge(state, r.delta)
      n2 == NextNode(node, s2)
  IN  /\ state' = s2
      /\ next' = n2
      /\ tracker' = r.tracker
      /\ checkpoints' =
           [checkpoints EXCEPT ![thread] = [values |-> s2, next |-> n2]]
      /\ trace' = Append(trace,
                    [node |-> node, result |-> r.result,
                     invoked |-> r.invoked,
                     over |-> tracker.total_cost > max_budget,
                     checked |-> IF node = "analysis"
                                 THEN tracker.total_cost ELSE NoCheck,
                     to |-> n2])
      /\ run_deltas' = run_deltas + CostOf(model_name, r.calls)
      /\ UNCHANGED <<thread, max_budget, model_name, runs, prior, script, ret,
                 pricing, log,
                 analysis_store>>

Passes == Cardinality({i \in 1..Len(trace) : trace[i].node = "research"})

ResearchNode(resp) ==
  /\ next = "research"
  /\ Passes < MaxPasses
  /\ Len(tracker.usage_history) + Len(resp.calls) <= MaxCalls
  /\ Superstep("research", _research_node(state, tracker, model_name, resp))

AnalysisNode(resp) ==
  /\ next = "analysis"
  /\ Len(tracker.usage_history) + Len(resp.calls) <= MaxCalls
  /\ Superstep("analysis",
               _analysis_node(state, tracker, max_budget, model_name, resp))

WritingNode(resp) ==
  /\ next = "writing"
  /\ Len(tracker.usage_history) + Len(resp.calls) <= MaxCalls
  /\ Superstep("writing", _writing_node(state, tracker, model_name, resp))

HumanReviewNode(reply) ==
  /\ next = "human_review"
  /\ Superstep("human_review", _human_review_node(state, tracker, reply))

\* the task running run() is cancelled while a node is pending: the calls
\* the in-flight agent already made stay in the ledger, no update is
\* applied and the last checkpoint stays as it is
Cancel(calls) ==
  /\ next \in Nodes
  /\ calls # <<>> =>
       /\ next \in {"research", "analysis", "writing"}
       /\ next = "analysis" => ~check_budget(tracker, max_budget)
  /\ Len(tracker.usage_history) + Len(calls) <= MaxCalls
  /\ tracker' = TrackAll(tracker, model_name, calls)
  /\ run_deltas' = run_deltas + CostOf(model_name, calls)
  /\ next' = Idle
  /\ UNCHANGED <<state, thread, max_budget, model_name, checkpoints, runs,
                 prior, trace, script, ret,
                 pricing, log,
                 analysis_store>>

\* the process dies while a node is pending and a new workflow object is
\* constructed on the same checkpoint database: the ledger starts afresh
Crash ==
  /\ next \in Nodes
  /\ tracker' = NewTracker
  /\ next' = Idle
  /\ UNCHANGED <<state, thread, max_budget, model_name, checkpoints, runs,
                 prior, trace, run_deltas, script, ret,
                 pricing, log,
                 analysis_store>>

Next ==
  \/ \E c \in Companies, i \in Industries, tid \in ThreadIds : Run(c, i, tid)
  \/ \E resp \in ResearchResponses : ResearchNode(resp)
  \/ \E resp \in AgentResponses : AnalysisNode(resp)
  \/ \E resp \in AgentResponses : WritingNode(resp)
  \/ HumanReviewNode(AutoApprove)
  \/ \E calls \in CallSeqs : Cancel(calls)
  \/ Crash

Spec == Init /\ [][Next]_vars

\* One run of the same workflow with the reviewer's verdict as an input:
\* the human_review node returns whatever verdict the reviewer gives
\* instead of the placeholder's constant one.
NextReview ==
  \/ \E c \in Companies, i \in Industries, tid \in ThreadIds :
       runs = 0 /\ Run(c, i, tid)
  \/ \E resp \in ResearchResponses : ResearchNode(resp)
  \/ \E resp \in AgentResponses : AnalysisNode(resp)
  \/ \E resp \in AgentResponses : WritingNode(resp)
  \/ \E reply \in ReviewReplies : HumanReviewNode(reply)
  \/ \E calls \in CallSeqs : Cancel(calls)
  \/ Crash

SpecReview == Init /\ [][NextReview]_vars

\* Replay: the collaborators are deterministic (every execution of a stage
\* gets the response the script holds for it), a first run is interrupted
\* between two supersteps, and run() is called again with the same
\* arguments on the same thread.
Scripts ==
  [research : ResearchResponses, analysis : AgentResponses,
   writing : AgentResponses]

InitReplay == InitWorkflow /\ script \in Scripts

Interrupted(tid) ==
  /\ next = Idle
  /\ checkpoints[tid] # NoCheckpoint
  /\ checkpoints[tid].next \in Nodes

NextReplay ==
  \/ \E c \in Companies, i \in Industries, tid \in ThreadIds :
       (runs = 0 \/ Interrupted(tid)) /\ Run(c, i, tid)
  \/ ResearchNode(script.research)
  \/ AnalysisNode(script.analysis)
  \/ WritingNode(script.writing)
  \/ HumanReviewNode(AutoApprove)
  \/ Cancel(<<>>)
  \/ Crash

SpecReplay == InitReplay /\ [][NextReplay]_vars

\* Direct calls, as the unit tests make them: a routing function or a
\* ledger method is called on the constructed workflow with an argument
\* the caller builds.
\* largest revision_count a caller passes
MaxRevisionCount == 3
\* state dictionaries handed to the review node and its routing function
RoutingStates ==
  {[InitialState(c, i) EXCEPT !.revision_count = r, !.approved = a,
                              !.human_feedback = f] :
     c \in Companies, i \in Industries, r \in 0..MaxRevisionCount,
     a \in BOOLEAN, f \in {None, "", "Please add more details"}}
\* model names and token counts handed to calculate_cost
UnitModels == PricedModels \cup {"unknown/model", "anthropic/claude-3.5-sonnet"}
UnitTokenCounts == {0, 50, 100, 5000, 10000}

\* workflow._check_approval(s)
CheckApprovalCall(s) ==
  /\ ret' = [fn |-> "_check_approval", arg |-> s,
             value |-> _check_approval(s)]
  /\ UNCHANGED <<state, next, thread, tracker, max_budget, model_name,
                 checkpoints, runs, prior, trace, run_deltas, script,
                 pricing, log,
                 analysis_store>>

\* the review step on s: workflow._human_review_node(s), its update
\* applied to s, and workflow._check_approval on the result
ReviewStepCall(s) ==
  /\ LET s2 == Merge(s, _human_review_node(s, tracker, AutoApprove).delta)
     IN  ret' = [fn |-> "review_step", arg |-> s,
                 value |-> [state |-> s2, route |-> _check_approval(s2)]]
  /\ UNCHANGED <<state, next, thread, tracker, max_budget, model_name,
                 checkpoints, runs, prior, trace, run_deltas, script,
                 pricing, log,
                 analysis_store>>

\* tracker.calculate_cost(model, input_tokens, output_tokens)
CalculateCostCall(model, input_tokens, output_tokens) ==
  /\ ret' = [fn |-> "calculate_cost",
             arg |-> <<model, input_tokens, output_tokens>>,
             value |-> calculate_cost(model, input_tokens, output_tokens)]
  /\ UNCHANGED <<state, next, thread, tracker, max_budget, model_name,
                 checkpoints, runs, prior, trace, run_deltas, script,
                 pricing, log,
                 analysis_store>>

NextUnit ==
  \/ \E s \in RoutingStates : CheckApprovalCall(s)
  \/ \E s \in RoutingStates : ReviewStepCall(s)
  \/ \E m \in UnitModels, i \in UnitTokenCounts, o \in UnitTokenCounts :
       CalculateCostCall(m, i, o)

SpecUnit == Init /\ [][NextUnit]_vars

\* The ledger used directly, as tests/unit/test_cost_tracker.py uses it:
\* track_usage and get_summary are called on one CostTracker, and the
\* class-level price table is updated between calls.
LedgerModels == {"openai/gpt-5-mini", "unknown/model"}
\* entries a price update writes into the table
PriceUpdates ==
  {[model |-> "openai/gpt-5-mini", entry |-> [input |-> 50, output |-> 400]]}

\* tracker.track_usage(model, input_tokens, output_tokens)
TrackUsageCall(model, input_tokens, output_tokens) ==
  /\ Len(tracker.usage_history) < MaxCalls
  /\ tracker' = track_usage_at(pricing, tracker, model, input_tokens,
                               output_tokens)
  /\ LET cost == calculate_cost_at(pricing, model, input_tokens,
                                   output_tokens)
     IN  /\ log' = Append(log, [model |-> model,
                                input_tokens |-> input_tokens,
                                output_tokens |-> output_tokens,
                                cost |-> cost])
         /\ ret' = [fn |-> "track_usage",
                    arg |-> <<model, input_tokens, output_tokens>>,
                    value |-> cost]
  /\ UNCHANGED <<state, next, thread, max_budget, model_name, checkpoints,
                 runs, prior, trace, run_deltas, script, pricing,
                 analysis_store>>

\* tracker.get_summary()
GetSummaryCall ==
  /\ ret' = [fn |-> "get_summary", arg |-> <<>>,
             value |-> get_summary_at(pricing, tracker)]
  /\ UNCHANGED <<state, next, thread, tracker, max_budget, model_name,
                 checkpoints, runs, prior, trace, run_deltas, script,
                 pricing, log,
                 analysis_store>>

\* CostTracker.PRICING[model] = entry
SetPriceCall(model, entry) ==
  /\ pricing[model] # entry
  /\ pricing' = [pricing EXCEPT ![model] = entry]
  /\ ret' = [fn |-> "set_price", arg |-> <<model, entry>>, value |-> None]
  /\ UNCHANGED <<state, next, thread, tracker, max_budget, model_name,
                 checkpoints, runs, prior, trace, run_deltas, script, log,
                 analysis_store>>

NextLedger ==
  \/ \E m \in LedgerModels, tp \in TokenPairs : TrackUsageCall(m, tp[1], tp[2])
  \/ GetSummaryCall
  \/ \E u \in PriceUpdates : SetPriceCall(u.model, u.entry)

SpecLedger == Init /\ [][NextLedger]_vars

\* Node functions called directly, as tests/unit/test_workflow.py calls
\* them: a node is executed on a state the caller builds, with the agent's
\* response given, on the workflow's ledger as it then is.
StepStates ==
  {InitialState(c, i) : c \in Companies, i \in Industries}
  \cup {[InitialState(c, i) EXCEPT !.research_data = Filled,
                                   !.competitors = Filled,
                                   !.market_trends = Filled,
                                   !.raw_sources = Filled,
                                   !.iteration = 1] :
          c \in Companies, i \in Industries}

\* the call of one node function: the ledger records the agent's calls
\* and the returned partial update is the value of the call
NodeCall(fn, s, resp, r) ==
  /\ Len(tracker.usage_history) + Len(resp.calls) <= MaxCalls
  /\ tracker' = r.tracker
  /\ ret' = [fn |-> fn, arg |-> <<s, resp>>, value |-> r.delta]
  /\ UNCHANGED <<state, next, thread, max_budget, model_name, checkpoints,
                 runs, prior, trace, run_deltas, script, pricing, log,
                 analysis_store>>

\* await workflow._research_node(s)
ResearchNodeCall(s, resp) ==
  NodeCall("_research_node", s, resp,
           _research_node(s, tracker, model_name, resp))

\* await workflow._analysis_node(s)
AnalysisNodeCall(s, resp) ==
  NodeCall("_analysis_node", s, resp,
           _analysis_node(s, tracker, max_budget, model_name, resp))

\* await workflow._writing_node(s)
WritingNodeCall(s, resp) ==
  NodeCall("_writing_node", s, resp,
           _writing_node(s, tracker, model_name, resp))

NextStep ==
  \/ \E s \in StepStates, resp \in ResearchResponses :
       ResearchNodeCall(s, resp)
  \/ \E s \in StepStates, resp \in AgentResponses : AnalysisNodeCall(s, resp)
  \/ \E s \in StepStates, resp \in AgentResponses : WritingNodeCall(s, resp)

SpecStep == Init /\ [][NextStep]_vars

(***************************************************************************)
(* The HTTP API of src/api/main.py: one analysis is started, its           *)
(* background task runs the workflow, and status and result are read at    *)
(* any point.  Timestamps are left out of the records; a progress          *)
(* fraction is counted in hundredths.                                      *)
(***************************************************************************)
progress_map ==
  [a \in {"research", "analysis", "writing", "human_review", "completed"} |->
     CASE a = "research" -> 20
       [] a = "analysis" -> 50
       [] a = "writing" -> 80
       [] a = "human_review" -> 90
       [] a = "completed" -> 100]

\* the response of GET /status/{run_id}
get_status(store, run_id) ==
  IF store[run_id] = NoRecord THEN [code |-> 404]
  ELSE LET analysis == store[run_id]
           current_agent == analysis.current_agent
           progress0 == IF current_agent # None
                        THEN (IF current_agent \in DOMAIN progress_map
                              THEN progress_map[current_agent] ELSE 0)
                        ELSE 0
           progress == IF analysis.status = "completed" THEN 100
                       ELSE progress0
       IN  [code |-> 200, status |-> analysis.status,
            current_agent |-> current_agent, progress |-> progress]

\* get_result refusing only a pending analysis
get_result_unless_pending(store, run_id) ==
  IF store[run_id] = NoRecord THEN [code |-> 404]
  ELSE IF store[run_id].status = "pending" THEN [code |-> 425]
  ELSE [code |-> 200, body |-> store[run_id]]

\* the response of GET /result/{run_id}
get_result(store, run_id) ==
  IF store[run_id] = NoRecord THEN [code |-> 404]
  ELSE IF store[run_id].status \notin {"completed", "failed"}
       THEN [code |-> 425]
  ELSE [code |-> 200, body |-> store[run_id]]

\* POST /analyze: the record is created as pending and the background task
\* is queued
analyze_company(run_id, company_name, industry) ==
  /\ analysis_store[run_id] = NoRecord
  /\ analysis_store' =
       [analysis_store EXCEPT ![run_id] =
          [run_id |-> run_id,
           company_name |-> company_name,
           industry |-> industry,
           status |-> "pending",
           executive_summary |-> None,
           full_report |-> None,
           total_cost |-> 0,
           total_tokens |-> 0,
           sources_count |-> 0,
           errors |-> <<>>,
           approved |-> FALSE,
           current_agent |-> None]]
  /\ ret' = [fn |-> "analyze_company", arg |-> run_id,
             value |-> [code |-> 200, body |-> analysis_store'[run_id]]]
  /\ UNCHANGED <<state, next, thread, tracker, max_budget, model_name,
                 checkpoints, runs, prior, trace, run_deltas, script,
                 pricing, log>>

\* run_analysis_task, lines 63-65: the task starts
TaskStart(run_id) ==
  /\ analysis_store[run_id] # NoRecord
  /\ analysis_store[run_id].status = "pending"
  /\ analysis_store' =
       [analysis_store EXCEPT ![run_id].status = "running",
                              ![run_id].current_agent = "research"]
  /\ UNCHANGED <<state, next, thread, tracker, max_budget, model_name,
                 checkpoints, runs, prior, trace, run_deltas, script, ret,
                 pricing, log>>

\* run_analysis_task, lines 70-77: the workflow is constructed and its
\* run() is awaited with the run id as thread id
TaskRun(run_id) ==
  /\ analysis_store[run_id] # NoRecord
  /\ analysis_store[run_id].status = "running"
  /\ runs = 0
  /\ Run(analysis_store[run_id].company_name,
         analysis_store[run_id].industry, run_id)

\* run_analysis_task, lines 79-93: run() has returned and the record is
\* updated from the final state
TaskFinish(run_id) ==
  /\ analysis_store[run_id] # NoRecord
  /\ analysis_store[run_id].status = "running"
  /\ next = END
  /\ thread = run_id
  /\ analysis_store' =
       [analysis_store EXCEPT ![run_id] =
          [@ EXCEPT !.status = IF state.errors = <<>> THEN "completed"
                               ELSE "failed",
                    !.executive_summary = state.executive_summary,
                    !.full_report = state.full_report,
                    !.total_cost = state.total_cost,
                    !.total_tokens = state.total_tokens,
                    !.sources_count = IF state.raw_sources = Empty THEN 0
                                      ELSE 1,
                    !.errors = state.errors,
                    !.approved = state.approved,
                    !.current_agent = state.current_agent]]
  /\ next' = Idle
  /\ UNCHANGED <<state, thread, tracker, max_budget, model_name,
                 checkpoints, runs, prior, trace, run_deltas, script, ret,
                 pricing, log>>

\* run_analysis_task, lines 97-104: constructing the workflow or awaiting
\* run() raised
TaskException(run_id) ==
  /\ analysis_store[run_id] # NoRecord
  /\ analysis_store[run_id].status = "running"
  /\ next # END
  /\ analysis_store' =
       [analysis_store EXCEPT ![run_id].status = "failed",
                              ![run_id].errors = <<"exception">>]
  /\ next' = Idle
  /\ UNCHANGED <<state, thread, tracker, max_budget, model_name,
                 checkpoints, runs, prior, trace, run_deltas, script, ret,
                 pricing, log>>

\* GET /status/{run_id}
GetStatus(run_id) ==
  /\ ret' = [fn |-> "get_status", arg |-> run_id,
             value |-> get_status(analysis_store, run_id)]
  /\ UNCHANGED <<state, next, thread, tracker, max_budget, model_name,
                 checkpoints, runs, prior, trace, run_deltas, script,
                 pricing, log, analysis_store>>

\* GET /result/{run_id}
GetResult(run_id) ==
  /\ ret' = [fn |-> "get_result", arg |-> run_id,
             value |-> get_result(analysis_store, run_id)]
  /\ UNCHANGED <<state, next, thread, tracker, max_budget, model_name,
                 checkpoints, runs, prior, trace, run_deltas, script,
                 pricing, log, analysis_store>>

NextApi ==
  \/ \E r \in RunIds, c \in Companies, i \in Industries :
       analyze_company(r, c, i)
  \/ \E r \in RunIds : TaskStart(r)
  \/ \E r \in RunIds : TaskRun(r)
  \/ \E resp \in ResearchResponses : ResearchNode(resp)
  \/ \E resp \in AgentResponses : AnalysisNode(resp)
  \/ \E resp \in AgentResponses : WritingNode(resp)
  \/ HumanReviewNode(AutoApprove)
  \/ \E r \in RunIds : TaskFinish(r)
  \/ \E r \in RunIds : TaskException(r)
  \/ \E r \in RunIds : GetStatus(r)
  \/ \E r \in RunIds : GetResult(r)

SpecApi == Init /\ [][NextApi]_vars

(***************************************************************************)
(* Properties                                                              *)
(***************************************************************************)
Last(seq) == seq[Len(seq)]
InRun == state # NoState
Finished == next = END
CostStages == {"research", "analysis", "writing"}

\* C1: when the budget check at the start of analysis fails, the run ends
\* at once: the budget message is in errors, no node runs after analysis
\* and the final state is not approved.
C1_BudgetFailureEndsRun ==
  \A i \in 1..Len(trace) :
    trace[i].result = "budget" =>
      /\ i = Len(trace)
      /\ trace[i].to = END
      /\ \E k \in 1..Len(state.errors) : state.errors[k] = "Budget exceeded"
      /\ ~state.approved

\* C2: no cost-incurring agent (research, analysis, writing) is invoked
\* while the ledger total already exceeds the budget.
C2_NoDispatchOverBudget ==
  \A i \in 1..Len(trace) :
    (trace[i].node \in CostStages /\ trace[i].invoked) => ~trace[i].over

\* C3: the budget check of the analysis node raises exactly when the
\* ledger total is strictly greater than the limit: not at equality, not
\* below.
C3_CheckBudgetStrict ==
  \A i \in 1..Len(trace) :
    trace[i].node = "analysis" =>
      (trace[i].result = "budget" <=> trace[i].checked > max_budget)

\* C3 witness: the analysis node made its check with the ledger total
\* equal to the limit, and the check passed
C3_Witness ==
  \E i \in 1..Len(trace) :
    /\ trace[i].node = "analysis"
    /\ trace[i].checked = max_budget
    /\ trace[i].checked > 0
    /\ trace[i].result # "budget"

\* C4: the cost in the final state of a run is the sum of the cost deltas
\* track_usage returned during the run.
C4_FinalCostIsSumOfDeltas ==
  Finished => state.total_cost = run_deltas

\* C8: a research failure or an empty research result ends the run, and
\* analysis and writing are never dispatched on empty research data.
C8_ResearchFailureEndsRun ==
  /\ \A i \in 1..Len(trace) :
       (trace[i].node = "research" /\ trace[i].result = "error") =>
         (i = Len(trace) /\ trace[i].to = END /\ next = END)
  /\ (trace # <<>> /\ Last(trace).node = "research"
        /\ state.research_data = Empty) => next = END
  /\ next \in {"analysis", "writing"} => state.research_data # Empty

\* C8 witness: research raised and the run ended with research as its
\* only node
C8_Witness ==
  /\ Len(trace) = 1
  /\ trace[1].node = "research"
  /\ trace[1].result = "error"
  /\ next = END

\* C9: a run started on a thread whose checkpoint has a pending node
\* dispatches that node first, not the entry point.
C9_ResumeFromCheckpointedStage ==
  (prior # NoCheckpoint /\ prior.next \in Nodes /\ next \in Nodes
     /\ trace = <<>>) => next = prior.next


\* REVIEW -> RESEARCH transitions taken so far in the current run
RevisionsTaken ==
  Cardinality({i \in 1..Len(trace) :
                 trace[i].node = "human_review" /\ trace[i].to = "research"})

\* C5: whatever the reviewer answers, review routes back to research at
\* most 2 times in one run.
C5_AtMostCapRevisions == RevisionsTaken <= 2

\* C6: revision_count counts the REVIEW -> RESEARCH transitions of the run
\* (one more on each, changed by nothing else) and never exceeds 2.
C6_RevisionCountCountsRevisions ==
  InRun => (state.revision_count = RevisionsTaken
              /\ state.revision_count <= 2)

\* C7: every stage succeeds, the reviewer asks for a revision on the
\* first two passes and approves on the third: the run ends with
\* revision_count = 2, approved and iteration = 3.
C7_Scenario ==
  /\ Finished
  /\ Len(trace) = 12
  /\ \A i \in 1..Len(trace) : trace[i].result = "ok"
  /\ trace[4].to = "research"
  /\ trace[8].to = "research"
  /\ state.approved

C7_TwoRevisionsThenApproval ==
  C7_Scenario =>
    (state.revision_count = 2 /\ state.approved /\ state.iteration = 3)


\* what the node dispatched at n returns under the script
ScriptedNode(n, s, t) ==
  CASE n = "research" ->
         _research_node(s, t, model_name, script.research)
    [] n = "analysis" ->
         _analysis_node(s, t, max_budget, model_name, script.analysis)
    [] n = "writing" ->
         _writing_node(s, t, model_name, script.writing)
    [] n = "human_review" -> _human_review_node(s, t, AutoApprove)

RECURSIVE RunToEnd(_, _, _, _)
\* the final state of a run that goes from node n in state s with ledger t
\* to END without interruption (at most `fuel` supersteps)
RunToEnd(s, n, t, fuel) ==
  IF n = END \/ fuel = 0 THEN s
  ELSE LET r == ScriptedNode(n, s, t)
           s2 == Merge(s, r.delta)
       IN  RunToEnd(s2, NextNode(n, s2), r.tracker, fuel - 1)

\* the final state of the scripted run in a fresh process, uninterrupted
Uninterrupted ==
  RunToEnd(InitialState(state.company_name, state.industry), EntryPoint,
           NewTracker, 2 * Cardinality(Nodes))

\* the run in progress was started on a thread whose previous run was
\* interrupted with a node pending
Resumed == prior # NoCheckpoint /\ prior.next \in Nodes

\* C10: a run interrupted after a checkpoint and resumed with identical
\* collaborator responses ends in the final state of the uninterrupted
\* run.
C10_ResumeEqualsUninterrupted ==
  (Finished /\ Resumed) => state = Uninterrupted

\* the first, uninterrupted run of a replay ends in the state Uninterrupted
\* computes
UninterruptedIsFirstRun ==
  (Finished /\ runs = 1) => state = Uninterrupted


C12_LedgerPerRun ==
  (next = EntryPoint /\ trace = <<>>) => tracker.total_cost = 0


NodesOf(tr) == [i \in 1..Len(tr) |-> tr[i].node]

\* research, analysis and writing have all executed in the run, every
\* execution succeeded, and the run has ended
C14_Scenario ==
  /\ Finished
  /\ \A i \in 1..Len(trace) : trace[i].result = "ok"
  /\ \A n \in CostStages : \E i \in 1..Len(trace) : trace[i].node = n

\* C14: when research, analysis and writing succeed and review
\* auto-approves, the four nodes execute exactly once each, in the order
\* research, analysis, writing, human_review, and the run ends approved
\* with revision_count = 0.
C14_HappyPath ==
  C14_Scenario =>
    /\ NodesOf(trace) = <<"research", "analysis", "writing", "human_review">>
    /\ state.approved
    /\ state.revision_count = 0

\* C14 witness: the happy path that recorded usage in every stage
C14_Witness ==
  /\ C14_Scenario
  /\ Len(tracker.usage_history) = 3
  /\ state.total_tokens > 0


\* C15: _check_approval follows the decision table in priority order:
\* revision_count >= 2 gives max_revisions; otherwise approved gives
\* approved; otherwise non-empty feedback gives revise; otherwise approved.
C15_RoutingTable ==
  ret.fn = "_check_approval" =>
    LET s == ret.arg
        has_feedback == s.human_feedback \notin {None, ""}
    IN  /\ s.revision_count >= 2 => ret.value = "max_revisions"
        /\ (s.revision_count < 2 /\ s.approved) => ret.value = "approved"
        /\ (s.revision_count < 2 /\ ~s.approved /\ has_feedback) =>
             ret.value = "revise"
        /\ (s.revision_count < 2 /\ ~s.approved /\ ~has_feedback) =>
             ret.value = "approved"

\* C15 witness: the cap takes priority over an approval
C15_Witness ==
  /\ ret.fn = "_check_approval"
  /\ ret.arg.revision_count = 2
  /\ ret.arg.approved
  /\ ret.value = "max_revisions"

C20_UnknownModelFallback ==
  (ret.fn = "calculate_cost" /\ ret.arg[1] \notin PricedModels) =>
    ret.value = ret.arg[2] * PRICING["openai/gpt-5-mini"].input
                  + ret.arg[3] * PRICING["openai/gpt-5-mini"].output

\* C20 witness: the call the unit test makes, priced at 0.0125 USD
C20_Witness ==
  /\ ret.fn = "calculate_cost"
  /\ ret.arg = <<"unknown/model", 10000, 5000>>
  /\ ret.value = 1250000


\* the errors entry a node's handler writes for a failed execution
FailureMessage(e) ==
  CASE e.result = "budget" -> "Budget exceeded"
    [] e.node = "research" -> "Research failed"
    [] e.node = "analysis" -> "Analysis failed"
    [] e.node = "writing" -> "Writing failed"

RECURSIVE Failures(_)
\* the entries of the failed executions of a trace, in order
Failures(tr) ==
  IF tr = <<>> THEN <<>>
  ELSE IF tr[1].result = "ok" THEN Failures(Tail(tr))
  ELSE <<FailureMessage(tr[1])>> \o Failures(Tail(tr))

\* the errors the thread's checkpoint held when the run started
PriorErrors == IF prior = NoCheckpoint THEN <<>> ELSE prior.values.errors

\* C17: a failure inside research, analysis or writing does not end run()
\* with an exception: the step completes with a successor chosen, exactly
\* one entry naming the stage is appended to errors for each failure, and
\* the final state of a run with a failure has a non-empty errors list.
C17_FailuresBecomeErrors ==
  InRun =>
    /\ state.errors = PriorErrors \o Failures(trace)
    /\ \A i \in 1..Len(trace) : trace[i].to \in Nodes \cup {END}
    /\ (Finished /\ Failures(trace) # <<>>) => state.errors # <<>>

\* C17 witness: analysis and writing both raised and the run returned
C17_Witness ==
  /\ Finished
  /\ PriorErrors = <<>>
  /\ Failures(trace) = <<"Analysis failed", "Writing failed">>
  /\ Len(state.errors) = 2

IsPrefix(a, b) == Len(a) <= Len(b) /\ SubSeq(b, 1, Len(a)) = a

\* C18: within a run every step leaves the errors it found as a prefix of
\* the errors it leaves: nothing is removed, reordered or overwritten.
C18_ErrorsAppendOnly ==
  [][(InRun /\ runs' = runs) => IsPrefix(state.errors, state'.errors)]_vars

\* C18 witness: research was re-entered after a revision with two errors
\* already recorded, and appended a third
C18_Witness ==
  /\ RevisionsTaken = 1
  /\ Last(trace).node = "research"
  /\ state.errors = <<"Analysis failed", "Writing failed", "Research failed">>

\* C19: iteration is the number of executions of the research node so far
\* in the run, failed executions included.
C19_IterationCountsResearch ==
  InRun => state.iteration = Passes


\* the logged calls made for model m
CallsFor(m) == SelectSeq(log, LAMBDA r : r.model = m)

\* C21: after any sequence of track_usage calls the usage history holds one
\* record per call in call order, the running total is the sum of the
\* returned cost deltas, and get_summary reports the call count, the
\* input, output and total token counts and the per-model token sums of
\* those records.
C21_LedgerMatchesCalls ==
  /\ Len(tracker.usage_history) = Len(log)
  /\ \A i \in 1..Len(log) :
       tracker.usage_history[i] =
         TokenUsage(log[i].input_tokens, log[i].output_tokens, log[i].model)
  /\ tracker.total_cost = SumOver(log, "cost")
  /\ ret.fn = "get_summary" =>
       /\ ret.value.calls = Len(log)
       /\ ret.value.total_input_tokens = SumOver(log, "input_tokens")
       /\ ret.value.total_output_tokens = SumOver(log, "output_tokens")
       /\ ret.value.total_tokens =
            SumOver(log, "input_tokens") + SumOver(log, "output_tokens")
       /\ DOMAIN ret.value.by_model = {log[i].model : i \in 1..Len(log)}
       /\ \A m \in DOMAIN ret.value.by_model :
            /\ ret.value.by_model[m].input_tokens =
                 SumOver(CallsFor(m), "input_tokens")
            /\ ret.value.by_model[m].output_tokens =
                 SumOver(CallsFor(m), "output_tokens")

\* C21 witness: a summary of three recorded calls on two models
C21_Witness ==
  /\ ret.fn = "get_summary"
  /\ Len(log) = 3
  /\ Cardinality(DOMAIN ret.value.by_model) = 2
  /\ ret.value.calls = 3

RECURSIVE SumCosts(_, _)
\* the sum of the cost entries of the per-model dictionary f over models ms
SumCosts(f, ms) ==
  IF ms = {} THEN 0
  ELSE LET m == CHOOSE x \in ms : TRUE
       IN  f[m].cost + SumCosts(f, ms \ {m})

\* C22: the costs get_summary reports are those fixed when each call was
\* recorded: each per-model cost is the sum of the costs returned for that
\* model's calls whatever the price table holds now, and the per-model
\* costs sum to the reported total cost.
C22_SummaryCostsFixedAtRecording ==
  ret.fn = "get_summary" =>
    /\ \A m \in DOMAIN ret.value.by_model :
         ret.value.by_model[m].cost = SumOver(CallsFor(m), "cost")
    /\ SumCosts(ret.value.by_model, DOMAIN ret.value.by_model)
         = ret.value.total_cost


FinalStatuses == {"completed", "failed"}

\* C23: the progress get_status reports is 1.0 for every finished run,
\* also one that finished with errors, and between two successive status
\* reads of the same run it never decreases.
C23_ProgressByStage ==
  [][(ret'.fn = "get_status" /\ ret'.value.code = 200) =>
       /\ ret'.value.status \in FinalStatuses => ret'.value.progress = 100
       /\ (ret.fn = "get_status" /\ ret.arg = ret'.arg
             /\ ret.value.code = 200) =>
            ret'.value.progress >= ret.value.progress]_vars

\* C24: get_result hands out the record exactly when the run's status is
\* completed or failed and answers not-ready while it is pending or
\* running; a status only moves from pending to running and from running
\* to completed or failed, and a completed or failed status stays.
C24_ResultOnlyWhenFinished ==
  [][/\ (ret' # ret /\ ret'.fn = "get_result"
           /\ analysis_store[ret'.arg] # NoRecord) =>
          /\ analysis_store[ret'.arg].status \in FinalStatuses =>
               (ret'.value.code = 200
                  /\ ret'.value.body = analysis_store[ret'.arg])
          /\ analysis_store[ret'.arg].status \in {"pending", "running"} =>
               ret'.value.code = 425
     /\ \A r \in RunIds :
          analysis_store'[r].status # analysis_store[r].status =>
            <<analysis_store[r].status, analysis_store'[r].status>> \in
              {<<"none", "pending">>, <<"pending", "running">>,
               <<"running", "completed">>, <<"running", "failed">>}]_vars

\* C24 witness: the record of a completed, approved run with its report
\* was handed out by get_result
C24_Witness ==
  /\ ret.fn = "get_result"
  /\ ret.value.code = 200
  /\ ret.value.body.status = "completed"
  /\ ret.value.body.full_report = Filled
  /\ ret.value.body.approved


\* the edges of the graph, END standing for the end of the run
Edges ==
  {<<"research", "analysis">>, <<"research", END>>,
   <<"analysis", "writing">>, <<"analysis", END>>,
   <<"writing", "human_review">>,
   <<"human_review", "research">>, <<"human_review", END>>}

\* C25: every step of a run follows one edge of the graph, the one
\* successor a step chose is the node that executes next, and nothing
\* executes after a step that chose the end of the run.
C25_StepsFollowGraph ==
  /\ \A i \in 1..Len(trace) : <<trace[i].node, trace[i].to>> \in Edges
  /\ \A i \in 1..(Len(trace) - 1) :
       trace[i].to # END /\ trace[i + 1].node = trace[i].to
  /\ (trace # <<>> /\ next \in Nodes \cup {END}) => next = Last(trace).to
  /\ Finished => Last(trace).to = END

\* C25 witness: a run that took the revision edge back to research and
\* then ended
C25_Witness ==
  /\ Finished
  /\ \E i \in 1..Len(trace) :
       trace[i].node = "human_review" /\ trace[i].to = "research"

\* a superstep of the current run is taken
StepTaken == InRun /\ runs' = runs /\ Len(trace') = Len(trace) + 1

\* C26: the cost recorded in the run state never decreases from one step
\* of a run to the next, revision re-entries and failed steps included.
C26_CostNeverDecreases ==
  [][StepTaken => state'.total_cost >= state.total_cost]_vars

\* C26 witness: writing recorded a cost in two passes of one run
C26_Witness ==
  /\ RevisionsTaken = 1
  /\ Last(trace).node = "writing"
  /\ Last(trace).result = "ok"
  /\ state.total_cost = 2500000

ResearchFields == {"research_data", "competitors", "market_trends",
                   "raw_sources"}
AnalysisFields == {"swot", "competitive_matrix", "positioning",
                   "strategic_recommendations"}
ReportFields == {"executive_summary", "full_report", "report_metadata"}
ReviewFields == {"approved", "human_feedback"}
TargetFields == {"company_name", "industry"}

\* C27: an analysis execution that fails for another reason than the
\* budget check is followed by writing, a writing execution is followed by
\* review whether it succeeded or failed, and a failed execution leaves
\* its stage's output fields as they were.
C27_PartialFailureTolerated ==
  [][StepTaken =>
       LET e == Last(trace')
       IN  /\ (e.node = "analysis" /\ e.result = "error") =>
                /\ e.to = "writing"
                /\ \A f \in AnalysisFields : state'[f] = state[f]
           /\ e.node = "writing" => e.to = "human_review"
           /\ (e.node = "writing" /\ e.result = "error") =>
                \A f \in ReportFields : state'[f] = state[f]]_vars

\* C27 witness: in the second pass analysis and writing both failed, the
\* first pass's outputs were kept and review is next
C27_Witness ==
  /\ RevisionsTaken = 1
  /\ Len(trace) >= 2
  /\ Last(trace).node = "writing"
  /\ Last(trace).result = "error"
  /\ trace[Len(trace) - 1].result = "error"
  /\ state.swot = Filled
  /\ state.full_report = Filled
  /\ next = "human_review"

\* C28: an execution of research that produced non-empty output and
\* appended no error is followed by analysis, also on a revision re-entry
\* with errors of an earlier pass already recorded.
C28_ResearchSuccessGoesToAnalysis ==
  (trace # <<>> /\ Last(trace).node = "research"
     /\ Last(trace).result = "ok" /\ state.research_data # Empty) =>
    Last(trace).to = "analysis"

\* the fields a node's stage owns
Owned(node) ==
  CASE node = "research" -> ResearchFields
    [] node = "analysis" -> AnalysisFields
    [] node = "writing" -> ReportFields
    [] node = "human_review" -> ReviewFields

\* C30: a step changes no field another stage owns: the target name and
\* industry never change, approved and the reviewer's feedback change only
\* in review, research outputs only in research, analysis outputs only in
\* analysis, report fields only in writing.
C30_StagesWriteOwnFields ==
  [][StepTaken =>
       LET node == Last(trace').node
       IN  \A f \in (TargetFields \cup ResearchFields \cup AnalysisFields
                       \cup ReportFields \cup ReviewFields) \ Owned(node) :
             state'[f] = state[f]]_vars

\* C30 witness: research ran again on a revision and replaced its own
\* outputs, with the reviewer's feedback and the first pass's analysis and
\* report still in the state
C30_Witness ==
  /\ RevisionsTaken = 1
  /\ Last(trace).node = "research"
  /\ Last(trace).result = "ok"
  /\ state.research_data = Empty
  /\ state.human_feedback = "Please add more details"
  /\ state.swot = Filled
  /\ state.full_report = Filled


\* C29: two executions of the same stage on equal input states with equal
\* collaborator responses return equal deltas, whatever the ledger holds
\* by then.
C29_StepIsFunctionOfInputs ==
  [][(ret.fn \in {"_research_node", "_analysis_node", "_writing_node"}
        /\ ret'.fn = ret.fn /\ ret'.arg = ret.arg) =>
       ret'.value = ret.value]_vars

====
